---- MODULE Spec2Model ----
(***************************************************************************)
(* A model of mitxgraders/helpers/mathfunc.py: the default registries, the *)
(* registry builders construct_functions / construct_constants /           *)
(* construct_suffixes, the comparator within_tolerance, the library        *)
(* entries of DEFAULT_FUNCTIONS and the sample generator                   *)
(* gen_symbols_samples.                                                    *)
(*                                                                         *)
(* Python objects are modelled as follows.                                 *)
(*  - A dict key / list entry is a record [t |-> <type name>, v |-> <repr>]*)
(*    (Str("sin"), None, Int1), so isinstance(f, str) and `f is None` are  *)
(*    tests of the t field.                                                *)
(*  - A dict is a TLA+ function from such records to values; dicts are     *)
(*    mutable objects and live in `heap`, indexed by reference.            *)
(*  - A dict value is an opaque object [kind |-> ..., id |-> ...].         *)
(***************************************************************************)
EXTENDS Integers, Sequences, FiniteSets, TLC

VARIABLES
    heap,       \* reference -> dict: the module globals and every live dict
    call,       \* the call under way or just made: its name and arguments
    ret,        \* what the call returned or raised
    returned,   \* references handed to the caller by successful builder calls
    ncalls,     \* builder calls made so far (SpecReg)
    nmut,       \* caller mutations of returned maps so far (SpecReg)
    gen         \* the activation record of gen_symbols_samples (SpecGen)

vars == <<heap, call, ret, returned, ncalls, nmut, gen>>

----------------------------------------------------------------------------
(* Python values *)

Str(s) == [t |-> "str", v |-> s]
None == [t |-> "NoneType", v |-> "None"]
Int1 == [t |-> "int", v |-> "1"]

Obj(kind, id) == [kind |-> kind, id |-> id]

EmptyDict == [k \in {} |-> Obj("", "")]
DictSet(d, k, v) == [x \in (DOMAIN d) \cup {k} |-> IF x = k THEN v ELSE d[x]]
DictDel(d, k) == [x \in (DOMAIN d) \ {k} |-> d[x]]
DictUpdate(d, e) == [x \in (DOMAIN d) \cup (DOMAIN e) |-> IF x \in DOMAIN e THEN e[x] ELSE d[x]]
DictOf(items) == [k \in {Str(p[1]) : p \in items} |-> (CHOOSE p \in items : Str(p[1]) = k)[2]]

----------------------------------------------------------------------------
(* The module globals *)

DEFAULT_VARIABLES ==
    DictOf({ <<"i", Obj("complex", "1j")>>, <<"j", Obj("complex", "1j")>>,
             <<"e", Obj("float", "np.e")>>, <<"pi", Obj("float", "np.pi")>> })

DEFAULT_FUNCTIONS ==
    DictOf({
        <<"sin", Obj("ufunc", "np.sin")>>,
        <<"cos", Obj("ufunc", "np.cos")>>,
        <<"tan", Obj("ufunc", "np.tan")>>,
        <<"sec", Obj("reciprocal", "sec")>>,
        <<"csc", Obj("reciprocal", "csc")>>,
        <<"cot", Obj("reciprocal", "cot")>>,
        <<"sqrt", Obj("ufunc", "np.lib.scimath.sqrt")>>,
        <<"log10", Obj("ufunc", "np.lib.scimath.log10")>>,
        <<"log2", Obj("ufunc", "np.lib.scimath.log2")>>,
        <<"ln", Obj("ufunc", "np.lib.scimath.log")>>,
        <<"exp", Obj("ufunc", "np.exp")>>,
        <<"arccos", Obj("ufunc", "np.lib.scimath.arccos")>>,
        <<"arcsin", Obj("ufunc", "np.lib.scimath.arcsin")>>,
        <<"arctan", Obj("ufunc", "np.arctan")>>,
        <<"arcsec", Obj("reciprocal", "arcsec")>>,
        <<"arccsc", Obj("reciprocal", "arccsc")>>,
        <<"arccot", Obj("branching", "arccot")>>,
        <<"abs", Obj("ufunc", "np.abs")>>,
        <<"fact", Obj("builtin", "math.factorial")>>,
        <<"factorial", Obj("builtin", "math.factorial")>>,
        <<"sinh", Obj("ufunc", "np.sinh")>>,
        <<"cosh", Obj("ufunc", "np.cosh")>>,
        <<"tanh", Obj("ufunc", "np.tanh")>>,
        <<"sech", Obj("reciprocal", "sech")>>,
        <<"csch", Obj("reciprocal", "csch")>>,
        <<"coth", Obj("reciprocal", "coth")>>,
        <<"arcsinh", Obj("ufunc", "np.arcsinh")>>,
        <<"arccosh", Obj("ufunc", "np.arccosh")>>,
        <<"arctanh", Obj("ufunc", "np.lib.scimath.arctanh")>>,
        <<"arcsech", Obj("reciprocal", "arcsech")>>,
        <<"arccsch", Obj("reciprocal", "arccsch")>>,
        <<"arccoth", Obj("reciprocal", "arccoth")>>,
        <<"re", Obj("tofloat", "np.real")>>,
        <<"im", Obj("tofloat", "np.imag")>>,
        <<"conj", Obj("ufunc", "np.conj")>> })

DEFAULT_SUFFIXES == DictOf({ <<"%", Obj("float", "0.01")>> })

METRIC_SUFFIXES ==
    DictOf({ <<"k", Obj("float", "1e3")>>, <<"M", Obj("float", "1e6")>>,
             <<"G", Obj("float", "1e9")>>, <<"T", Obj("float", "1e12")>>,
             <<"m", Obj("float", "1e-3")>>, <<"u", Obj("float", "1e-6")>>,
             <<"n", Obj("float", "1e-9")>>, <<"p", Obj("float", "1e-12")>> })

\* The references the four global names are bound to.
RefVariables == 0
RefFunctions == 1
RefSuffixes == 2
RefMetric == 3
GlobalRefs == {RefVariables, RefFunctions, RefSuffixes, RefMetric}

InitHeap ==
    [r \in GlobalRefs |->
        CASE r = RefVariables -> DEFAULT_VARIABLES
          [] r = RefFunctions -> DEFAULT_FUNCTIONS
          [] r = RefSuffixes -> DEFAULT_SUFFIXES
          [] OTHER -> METRIC_SUFFIXES]

\* A fresh reference: the object a dict display or .copy() creates.
NewRef(h) == CHOOSE r \in 0..Cardinality(DOMAIN h) :
                 r \notin DOMAIN h /\ \A q \in 0..(r - 1) : q \in DOMAIN h

\* Copy with a fault: the name is bound to the same object (no .copy()).
CopyAliases(h, ref) == [heap |-> h, ref |-> ref]

\* dict.copy(): a new object with the same items.
Copy(h, ref) ==
    [heap |-> [r \in (DOMAIN h) \cup {NewRef(h)} |-> IF r \in DOMAIN h THEN h[r] ELSE h[ref]],
     ref |-> NewRef(h)]

\* {}: a new empty dict.
NewDict(h) ==
    [heap |-> [r \in (DOMAIN h) \cup {NewRef(h)} |-> IF r \in DOMAIN h THEN h[r] ELSE EmptyDict],
     ref |-> NewRef(h)]

\* A local name going out of scope: its object is freed unless a global names it.
Release(h, refs) == [r \in (DOMAIN h) \ (refs \ GlobalRefs) |-> h[r]]

NoRef == 0 - 1

----------------------------------------------------------------------------
(* construct_functions *)

\* The outcome of a builder call: the heap it leaves, and either the
\* references it returns or the exception it raises.
Returns(h, functions, random_funcs) ==
    [status |-> "return", exc |-> "", msg |-> <<>>, heap |-> h,
     functions |-> functions, random_funcs |-> random_funcs]

Raises(h, exc, msg, locals) ==
    [status |-> "raise", exc |-> exc, msg |-> msg, heap |-> Release(h, locals),
     functions |-> NoRef, random_funcs |-> NoRef]

\* SpecificFunctions(user_funcs[f]): the finite-list descriptor built from a list.
SpecificFunctions(v) == Obj("SpecificFunctions", v.id)

\* isinstance(v, FunctionSamplingSet)
IsFunctionSamplingSet(v) == v.kind = "FunctionSamplingSet"

\* WhitelistLoop with a fault: an unknown name is skipped instead of raising.
RECURSIVE WhitelistLoopSkipsUnknown(_, _, _, _)
WhitelistLoopSkipsUnknown(h, functions, whitelist, i) ==
    IF i > Len(whitelist) THEN Returns(h, functions, NoRef)
    ELSE LET f == whitelist[i] IN
        IF f = None \/ f \notin DOMAIN h[RefFunctions]
        THEN WhitelistLoopSkipsUnknown(h, functions, whitelist, i + 1)
        ELSE WhitelistLoopSkipsUnknown([h EXCEPT ![functions] = DictSet(@, f, h[RefFunctions][f])],
                                       functions, whitelist, i + 1)

\* for f in whitelist: ...   (from entry i on)
RECURSIVE WhitelistLoop(_, _, _, _)
WhitelistLoop(h, functions, whitelist, i) ==
    IF i > Len(whitelist) THEN Returns(h, functions, NoRef)
    ELSE LET f == whitelist[i] IN
        IF f = None THEN WhitelistLoop(h, functions, whitelist, i + 1)
        ELSE IF f \in DOMAIN h[RefFunctions]
        THEN WhitelistLoop([h EXCEPT ![functions] = DictSet(@, f, h[RefFunctions][f])],
                           functions, whitelist, i + 1)
        ELSE Raises(h, "ConfigError", <<"Unknown function in whitelist: ", f.v>>, {functions})

\* BlacklistLoop with a fault: the name is checked but the entry is not deleted.
RECURSIVE BlacklistLoopKeeps(_, _, _, _)
BlacklistLoopKeeps(h, functions, blacklist, i) ==
    IF i > Len(blacklist) THEN Returns(h, functions, NoRef)
    ELSE LET f == blacklist[i] IN
        IF f \in DOMAIN h[functions]
        THEN BlacklistLoopKeeps(h, functions, blacklist, i + 1)
        ELSE Raises(h, "ConfigError", <<"Unknown function in blacklist: ", f.v>>, {functions})

\* for f in blacklist: del functions[f]   (from entry i on)
RECURSIVE BlacklistLoop(_, _, _, _)
BlacklistLoop(h, functions, blacklist, i) ==
    IF i > Len(blacklist) THEN Returns(h, functions, NoRef)
    ELSE LET f == blacklist[i] IN
        IF f \in DOMAIN h[functions]
        THEN BlacklistLoop([h EXCEPT ![functions] = DictDel(@, f)], functions, blacklist, i + 1)
        ELSE Raises(h, "ConfigError", <<"Unknown function in blacklist: ", f.v>>, {functions})

\* UserLoop with a fault: a plain user function does not replace an entry that
\* filtering kept (setdefault instead of assignment).
RECURSIVE UserLoopKeepsBase(_, _, _, _, _)
UserLoopKeepsBase(h, functions, random_funcs, user_funcs, i) ==
    IF i > Len(user_funcs) THEN Returns(h, functions, random_funcs)
    ELSE LET f == user_funcs[i][1]
             v == user_funcs[i][2]
         IN
        IF f.t # "str"
        THEN Raises(h, "ConfigError",
                    <<f.v, " is not a valid name for a function (must be a string)">>,
                    {functions, random_funcs})
        ELSE IF v.kind = "list"
        THEN UserLoopKeepsBase([h EXCEPT ![random_funcs] = DictSet(@, f, SpecificFunctions(v))],
                               functions, random_funcs, user_funcs, i + 1)
        ELSE IF IsFunctionSamplingSet(v)
        THEN UserLoopKeepsBase([h EXCEPT ![random_funcs] = DictSet(@, f, v)],
                               functions, random_funcs, user_funcs, i + 1)
        ELSE IF f \in DOMAIN h[functions]
        THEN UserLoopKeepsBase(h, functions, random_funcs, user_funcs, i + 1)
        ELSE UserLoopKeepsBase([h EXCEPT ![functions] = DictSet(@, f, v)],
                               functions, random_funcs, user_funcs, i + 1)

\* for f in user_funcs: ...   (user_funcs in its iteration order, from item i on)
RECURSIVE UserLoop(_, _, _, _, _)
UserLoop(h, functions, random_funcs, user_funcs, i) ==
    IF i > Len(user_funcs) THEN Returns(h, functions, random_funcs)
    ELSE LET f == user_funcs[i][1]
             v == user_funcs[i][2]
         IN
        IF f.t # "str"
        THEN Raises(h, "ConfigError",
                    <<f.v, " is not a valid name for a function (must be a string)">>,
                    {functions, random_funcs})
        ELSE IF v.kind = "list"
        THEN UserLoop([h EXCEPT ![random_funcs] = DictSet(@, f, SpecificFunctions(v))],
                      functions, random_funcs, user_funcs, i + 1)
        ELSE IF IsFunctionSamplingSet(v)
        THEN UserLoop([h EXCEPT ![random_funcs] = DictSet(@, f, v)],
                      functions, random_funcs, user_funcs, i + 1)
        ELSE UserLoop([h EXCEPT ![functions] = DictSet(@, f, v)],
                      functions, random_funcs, user_funcs, i + 1)

\* FilterFunctions with a fault: a non-empty whitelist silently wins over the blacklist.
FilterFunctionsNoExclusion(h, whitelist, blacklist) ==
    IF whitelist # <<>>
    THEN LET new == NewDict(h) IN WhitelistLoop(new.heap, new.ref, whitelist, 1)
    ELSE LET new == Copy(h, RefFunctions) IN BlacklistLoop(new.heap, new.ref, blacklist, 1)

\* The whitelist / blacklist filtering that yields `functions`.
FilterFunctions(h, whitelist, blacklist) ==
    IF whitelist # <<>>
    THEN IF blacklist # <<>>
         THEN Raises(h, "ConfigError", <<"Cannot whitelist and blacklist at the same time">>, {})
         ELSE LET new == NewDict(h) IN WhitelistLoop(new.heap, new.ref, whitelist, 1)
    ELSE LET new == Copy(h, RefFunctions) IN BlacklistLoop(new.heap, new.ref, blacklist, 1)

construct_functions(h, whitelist, blacklist, user_funcs) ==
    LET filtered == FilterFunctions(h, whitelist, blacklist) IN
    IF filtered.status = "raise" THEN filtered
    ELSE LET new == NewDict(filtered.heap) IN
         UserLoop(new.heap, filtered.functions, new.ref, user_funcs, 1)

----------------------------------------------------------------------------
(* construct_constants, construct_suffixes *)

\* for var in user_consts: ...   (user_consts in its iteration order, from item i on)
RECURSIVE ConstLoop(_, _, _, _)
ConstLoop(h, constants, user_consts, i) ==
    IF i > Len(user_consts) THEN Returns(h, constants, NoRef)
    ELSE LET var == user_consts[i][1] IN
        IF var.t # "str"
        THEN Raises(h, "ConfigError",
                    <<var.v, " is not a valid name for a constant (must be a string)">>,
                    {constants})
        ELSE ConstLoop([h EXCEPT ![constants] = DictSet(@, var, user_consts[i][2])],
                       constants, user_consts, i + 1)

construct_constants(h, user_consts) ==
    LET new == Copy(h, RefVariables) IN ConstLoop(new.heap, new.ref, user_consts, 1)

construct_suffixes(h, metric) ==
    LET new == Copy(h, RefSuffixes) IN
    IF metric
    THEN Returns([new.heap EXCEPT ![new.ref] = DictUpdate(@, new.heap[RefMetric])], new.ref, NoRef)
    ELSE Returns(new.heap, new.ref, NoRef)

----------------------------------------------------------------------------
(* Inputs of the builders *)

MaxListLen == 2
MaxUserFuncs == 1

SeqsUpTo(S, n) == UNION {[1..k -> S] : k \in 0..n}
Items(S, n) == {s \in SeqsUpTo(S, n) : \A i, j \in 1..Len(s) : s[i][1] = s[j][1] => i = j}

WhitelistEntries == {None, Str("sin"), Str("cos"), Str("bogus"), Str("nope")}
BlacklistEntries == {Str("sin"), Str("cos"), Str("bogus"), Str("nope")}
UserKeys == {Str("sin"), Str("f"), Int1}
UserValues == {Obj("function", "func"), Obj("list", "[func, func2]"), Obj("FunctionSamplingSet", "randfunc")}

Whitelists == SeqsUpTo(WhitelistEntries, MaxListLen)
Blacklists == SeqsUpTo(BlacklistEntries, MaxListLen)
UserFuncs == Items(UserKeys \X UserValues, MaxUserFuncs)

Pending == [status |-> "pending", exc |-> "", msg |-> <<>>, functions |-> NoRef, random_funcs |-> NoRef]
Outcome(r) == [status |-> r.status, exc |-> r.exc, msg |-> r.msg,
               functions |-> r.functions, random_funcs |-> r.random_funcs]
NoGen == [pc |-> "idle"]

----------------------------------------------------------------------------
(* SpecFuncs: one call of construct_functions on every input *)

InitFuncs ==
    /\ heap = InitHeap
    /\ \E w \in Whitelists, b \in Blacklists, u \in UserFuncs :
          call = [op |-> "construct_functions", whitelist |-> w, blacklist |-> b, user_funcs |-> u]
    /\ ret = Pending
    /\ returned = <<>>
    /\ ncalls = 0
    /\ nmut = 0
    /\ gen = NoGen

CallConstructFunctions ==
    /\ call.op = "construct_functions"
    /\ ret.status = "pending"
    /\ LET r == construct_functions(heap, call.whitelist, call.blacklist, call.user_funcs) IN
          /\ heap' = r.heap
          /\ ret' = Outcome(r)
          /\ returned' = IF r.status = "return" THEN <<r.functions, r.random_funcs>> ELSE <<>>
    /\ UNCHANGED <<call, ncalls, nmut, gen>>

NextFuncs == CallConstructFunctions

SpecFuncs == InitFuncs /\ [][NextFuncs]_vars

----------------------------------------------------------------------------
(* Claims about construct_functions, stated on the call's inputs and on    *)
(* what the caller sees, without reference to the loops above.             *)

FuncsDone == call.op = "construct_functions" /\ ret.status # "pending"
FuncsReturned == FuncsDone /\ ret.status = "return"
Entries(list) == {list[i] : i \in 1..Len(list)}
BaseNames == DOMAIN DEFAULT_FUNCTIONS
ConfigErrorNaming(prefix, name) ==
    /\ ret.status = "raise"
    /\ ret.exc = "ConfigError"
    /\ ret.msg = <<prefix, name>>
    /\ returned = <<>>

\* C3: a non-empty whitelist together with a non-empty blacklist is a
\* configuration error, whatever the lists and user_funcs hold, and no maps
\* are returned.
C3_MutualExclusion ==
    (FuncsDone /\ call.whitelist # <<>> /\ call.blacklist # <<>>)
        => /\ ret.status = "raise"
           /\ ret.exc = "ConfigError"
           /\ ret.functions = NoRef
           /\ ret.random_funcs = NoRef
           /\ returned = <<>>

C3_Witness ==
    /\ FuncsDone
    /\ call.whitelist = <<None>>
    /\ call.blacklist = <<Str("bogus")>>
    /\ call.user_funcs # <<>>
    /\ ret.status = "raise"

C4_Expected ==
    IF call.whitelist # <<>>
    THEN [k \in Entries(call.whitelist) \ {None} |-> DEFAULT_FUNCTIONS[k]]
    ELSE [k \in BaseNames \ Entries(call.blacklist) |-> DEFAULT_FUNCTIONS[k]]

C4_Listed ==
    /\ FuncsDone
    /\ call.user_funcs = <<>>
    /\ (call.whitelist = <<>> \/ call.blacklist = <<>>)
    /\ Entries(call.whitelist) \ {None} \subseteq BaseNames
    /\ Entries(call.blacklist) \subseteq BaseNames

\* C4: with no user functions and only known names listed, a non-empty
\* whitelist yields exactly the base entries it names (None adds nothing),
\* an empty whitelist yields the base library minus the blacklisted names,
\* and the randomized-functions map is empty.
C4_FilteredMap ==
    C4_Listed =>
        /\ ret.status = "return"
              => /\ heap[ret.functions] = C4_Expected
                 /\ heap[ret.random_funcs] = EmptyDict
        /\ (\A i, j \in 1..Len(call.blacklist) : call.blacklist[i] = call.blacklist[j] => i = j)
              => ret.status = "return"

C4_Witness ==
    /\ FuncsReturned
    /\ call.user_funcs = <<>>
    /\ call.whitelist = <<>>
    /\ call.blacklist = <<Str("sin"), Str("cos")>>
    /\ DOMAIN heap[ret.functions] = BaseNames \ {Str("sin"), Str("cos")}

\* The first whitelist entry that is neither None nor a base name, and the
\* first blacklist entry that is not a base name or repeats an earlier entry.
BadWhite(w, i) == w[i] # None /\ w[i] \notin BaseNames
BadBlack(b, i) == b[i] \notin BaseNames \/ \E j \in 1..(i - 1) : b[j] = b[i]
HasBadWhite(w) == \E i \in 1..Len(w) : BadWhite(w, i)
HasBadBlack(b) == \E i \in 1..Len(b) : BadBlack(b, i)
FirstBadWhite(w) == w[CHOOSE i \in 1..Len(w) : BadWhite(w, i) /\ \A j \in 1..(i - 1) : ~BadWhite(w, j)]
FirstBadBlack(b) == b[CHOOSE i \in 1..Len(b) : BadBlack(b, i) /\ \A j \in 1..(i - 1) : ~BadBlack(b, j)]

\* C5 as stated: an unknown whitelist name, or a blacklist name absent from
\* the map being filtered, always gives a configuration error naming the
\* first such entry.
C5_AsStated ==
    FuncsDone =>
        /\ HasBadWhite(call.whitelist)
              => ConfigErrorNaming("Unknown function in whitelist: ", FirstBadWhite(call.whitelist).v)
        /\ (call.whitelist = <<>> /\ HasBadBlack(call.blacklist))
              => ConfigErrorNaming("Unknown function in blacklist: ", FirstBadBlack(call.blacklist).v)

\* C5 amended: the same, for the whitelist when the blacklist is empty (with
\* both lists non-empty the error is the mutual-exclusion one, which names
\* no entry).
C5_NamesFirstOffender ==
    FuncsDone =>
        /\ (call.blacklist = <<>> /\ HasBadWhite(call.whitelist))
              => ConfigErrorNaming("Unknown function in whitelist: ", FirstBadWhite(call.whitelist).v)
        /\ (call.whitelist = <<>> /\ HasBadBlack(call.blacklist))
              => ConfigErrorNaming("Unknown function in blacklist: ", FirstBadBlack(call.blacklist).v)
        /\ (call.whitelist # <<>> /\ call.blacklist # <<>>)
              => (ret.status = "raise" /\ ret.exc = "ConfigError" /\ returned = <<>>)

C5_Witness ==
    /\ FuncsDone
    /\ call.whitelist = <<>>
    /\ call.blacklist = <<Str("sin"), Str("sin")>>
    /\ ret.msg = <<"Unknown function in blacklist: ", "sin">>

UserItems == {call.user_funcs[i] : i \in 1..Len(call.user_funcs)}
IsPlain(v) == v.kind \notin {"list", "FunctionSamplingSet"}
PlainUserNames == {it[1] : it \in {x \in UserItems : IsPlain(x[2])}}
RandomUserNames == {it[1] : it \in {x \in UserItems : ~IsPlain(x[2])}}
FilteredNames ==
    IF call.whitelist # <<>> THEN Entries(call.whitelist) \ {None}
    ELSE BaseNames \ Entries(call.blacklist)

\* C6: user entries are applied after filtering and win by name: a list
\* becomes a finite-list descriptor in the randomized map only, a function
\* sampling set is stored there as is, anything else is bound in the plain
\* map; every other plain name is what filtering left, and the randomized
\* map holds user names only.
C6_UserPrecedence ==
    FuncsReturned =>
        LET functions == heap[ret.functions]
            random_funcs == heap[ret.random_funcs]
        IN  /\ \A it \in UserItems :
                 /\ it[1].t = "str"
                 /\ it[2].kind = "list"
                       => /\ it[1] \in DOMAIN random_funcs
                          /\ random_funcs[it[1]] = [kind |-> "SpecificFunctions", id |-> it[2].id]
                 /\ it[2].kind = "FunctionSamplingSet"
                       => /\ it[1] \in DOMAIN random_funcs
                          /\ random_funcs[it[1]] = it[2]
                 /\ IsPlain(it[2])
                       => /\ it[1] \in DOMAIN functions
                          /\ functions[it[1]] = it[2]
            /\ DOMAIN random_funcs = RandomUserNames
            /\ DOMAIN functions = FilteredNames \cup PlainUserNames
            /\ \A k \in DOMAIN functions \ PlainUserNames : functions[k] = DEFAULT_FUNCTIONS[k]

C6_Witness ==
    /\ FuncsReturned
    /\ call.blacklist = <<Str("sin")>>
    /\ call.user_funcs = << <<Str("sin"), [kind |-> "function", id |-> "func"]>> >>
    /\ heap[ret.functions][Str("sin")] = [kind |-> "function", id |-> "func"]

----------------------------------------------------------------------------
(* SpecReg: any sequence of builder calls, the caller keeping and mutating *)
(* the maps it was handed                                                  *)

MaxCalls == 2
MaxMutations == 1

RegWhitelists == {<<>>, <<None>>, <<Str("sin"), Str("bogus")>>}
RegBlacklists == {<<>>, <<Str("sin")>>, <<Str("sin"), Str("sin")>>}
RegUserFuncs ==
    { <<>>,
      << <<Str("sin"), Obj("function", "func")>> >>,
      << <<Str("f"), Obj("list", "[func, func2]")>> >>,
      << <<Str("sin"), Obj("function", "func")>>, <<Int1, Obj("function", "func")>> >> }
RegUserConsts ==
    { <<>>,
      << <<Str("T"), Obj("float", "1.5")>> >>,
      << <<Str("pi"), Obj("float", "3")>>, <<Int1, Obj("float", "1.5")>> >> }
MutKeys == {Str("sin"), Str("pi"), Str("zz")}
MutValue == Obj("function", "caller")

InitReg ==
    /\ heap = InitHeap
    /\ call = [op |-> "none"]
    /\ ret = Pending
    /\ returned = <<>>
    /\ ncalls = 0
    /\ nmut = 0
    /\ gen = NoGen

\* What the caller keeps of a call: the maps returned, in order.
Kept(r) ==
    IF r.status # "return" THEN <<>>
    ELSE IF r.random_funcs = NoRef THEN <<r.functions>>
    ELSE <<r.functions, r.random_funcs>>

Builder(op, r) ==
    /\ ncalls < MaxCalls
    /\ heap' = r.heap
    /\ call' = [op |-> op]
    /\ ret' = Outcome(r)
    /\ returned' = returned \o Kept(r)
    /\ ncalls' = ncalls + 1
    /\ UNCHANGED <<nmut, gen>>

RegConstructFunctions ==
    \E w \in RegWhitelists, b \in RegBlacklists, u \in RegUserFuncs :
        Builder("construct_functions", construct_functions(heap, w, b, u))

RegConstructConstants ==
    \E u \in RegUserConsts : Builder("construct_constants", construct_constants(heap, u))

RegConstructSuffixes ==
    \E metric \in BOOLEAN : Builder("construct_suffixes", construct_suffixes(heap, metric))

\* The caller adds or replaces a key of a map it was handed.
CallerSets ==
    /\ nmut < MaxMutations
    /\ \E i \in 1..Len(returned), k \in MutKeys :
          heap' = [heap EXCEPT ![returned[i]] = DictSet(@, k, MutValue)]
    /\ nmut' = nmut + 1
    /\ UNCHANGED <<call, ret, returned, ncalls, gen>>

\* The caller deletes a key of a map it was handed.
CallerDeletes ==
    /\ nmut < MaxMutations
    /\ \E i \in 1..Len(returned), k \in MutKeys :
          /\ k \in DOMAIN heap[returned[i]]
          /\ heap' = [heap EXCEPT ![returned[i]] = DictDel(@, k)]
    /\ nmut' = nmut + 1
    /\ UNCHANGED <<call, ret, returned, ncalls, gen>>

NextReg ==
    \/ RegConstructFunctions
    \/ RegConstructConstants
    \/ RegConstructSuffixes
    \/ CallerSets
    \/ CallerDeletes

SpecReg == InitReg /\ [][NextReg]_vars

\* C7: the four base registries keep their initial contents through every
\* sequence of builder calls (failed ones included) and caller mutations, and
\* every map handed to the caller is an object of its own: none is a base
\* registry and no two calls hand out the same one, so a mutation through one
\* reference reaches no other.
C7_RegistriesImmutable ==
    /\ heap[RefFunctions] = DEFAULT_FUNCTIONS
    /\ heap[RefVariables] = DEFAULT_VARIABLES
    /\ heap[RefSuffixes] = DEFAULT_SUFFIXES
    /\ heap[RefMetric] = METRIC_SUFFIXES
    /\ \A i \in 1..Len(returned) :
          /\ returned[i] \notin GlobalRefs
          /\ returned[i] \in DOMAIN heap
          /\ \A j \in 1..Len(returned) : returned[i] = returned[j] => i = j

C7_Witness ==
    /\ ncalls = MaxCalls
    /\ nmut > 0
    /\ ret.status = "raise"
    /\ Len(returned) > 0
    /\ \E i \in 1..Len(returned) :
          /\ Str("sin") \in DOMAIN heap[returned[i]]
          /\ heap[returned[i]][Str("sin")] = MutValue

----------------------------------------------------------------------------
(* within_tolerance                                                        *)
(*                                                                         *)
(* Numbers are exact: a real is an integer count of hundredths, a complex  *)
(* number a pair <<re, im>> of them, and a float obtained from a string or *)
(* by multiplication is a fraction in lowest terms.  A norm is kept as     *)
(* (num / den) * sqrt(rad), so that comparisons of norms are exact.        *)

Scalar(re, im) == [kind |-> "scalar", data |-> << <<re, im>> >>]
Array(entries) == [kind |-> "array", data |-> [i \in 1..Len(entries) |-> <<entries[i], 0>>]]
\* A value whose subtraction always raises the 'operation not supported' error.
NoSub == [kind |-> "nosub", data |-> <<>>]

RECURSIVE GCD(_, _)
GCD(a, b) == IF b = 0 THEN a ELSE GCD(b, a % b)
Abs(n) == IF n < 0 THEN 0 - n ELSE n
Fraction(num, den) ==
    LET g == GCD(Abs(num), den) IN [num |-> num \div g, den |-> den \div g]

\* str.strip(): leading and trailing whitespace removed.
IsSpace(c) == c \in {" ", "\t", "\n"}
RECURSIVE LStrip(_)
LStrip(s) == IF s # <<>> /\ IsSpace(Head(s)) THEN LStrip(Tail(s)) ELSE s
RECURSIVE RStrip(_)
RStrip(s) == IF s # <<>> /\ IsSpace(s[Len(s)]) THEN RStrip(SubSeq(s, 1, Len(s) - 1)) ELSE s
Strip(s) == RStrip(LStrip(s))

\* tolerance[:-1]: all but the last character.
DropLast(s) == SubSeq(s, 1, Len(s) - 1)

Digits == <<"0", "1", "2", "3", "4", "5", "6", "7", "8", "9">>
IsDigit(c) == \E d \in 1..Len(Digits) : Digits[d] = c
DigitValue(c) == (CHOOSE d \in 1..Len(Digits) : Digits[d] = c) - 1
RECURSIVE DecimalValue(_)
DecimalValue(s) == IF s = <<>> THEN 0 ELSE DecimalValue(DropLast(s)) * 10 + DigitValue(s[Len(s)])
RECURSIVE PowerOfTen(_)
PowerOfTen(n) == IF n = 0 THEN 1 ELSE 10 * PowerOfTen(n - 1)

\* float(s) for a decimal literal: optional surrounding whitespace, optional
\* sign, digits with at most one point and at least one digit.  Anything
\* else is a ValueError.
ParseFloat(s) ==
    LET t == Strip(s)
        signed == t # <<>> /\ Head(t) \in {"+", "-"}
        body == IF signed THEN Tail(t) ELSE t
        dots == {i \in 1..Len(body) : body[i] = "."}
        cut == IF dots = {} THEN Len(body) + 1 ELSE CHOOSE i \in dots : TRUE
        whole == SubSeq(body, 1, cut - 1)
        frac == SubSeq(body, cut + 1, Len(body))
        mag == DecimalValue(whole \o frac)
    IN  IF /\ Cardinality(dots) <= 1
           /\ Len(whole) + Len(frac) > 0
           /\ \A i \in 1..Len(whole) : IsDigit(whole[i])
           /\ \A i \in 1..Len(frac) : IsDigit(frac[i])
        THEN [ok |-> TRUE,
              value |-> Fraction(IF signed /\ Head(t) = "-" THEN 0 - mag ELSE mag,
                                 PowerOfTen(Len(frac)))]
        ELSE [ok |-> FALSE, value |-> Fraction(0, 1)]

\* The sum of the squared moduli of the entries.
RECURSIVE SumSq(_)
SumSq(data) ==
    IF data = <<>> THEN 0
    ELSE Head(data)[1] * Head(data)[1] + Head(data)[2] * Head(data)[2] + SumSq(Tail(data))

\* np.linalg.norm(v): the absolute value of a scalar, the Euclidean norm of an array.
Norm(v) == [num |-> 1, den |-> 1, rad |-> SumSq(v.data)]

\* A norm times a float.
Times(n, f) ==
    LET r == Fraction(n.num * f.num, n.den * f.den) IN [num |-> r.num, den |-> r.den, rad |-> n.rad]

\* The 0.01 of line 181.
OneHundredth == Fraction(1, 100)

Sign(n) == IF n.num = 0 \/ n.rad = 0 THEN 0 ELSE IF n.num > 0 THEN 1 ELSE 0 - 1

\* a <= b for two such numbers: by sign, then by the squares.  For positive
\* integers m * k <= n is m <= n \div k, which keeps the products small.
Leq(a, b) ==
    CASE Sign(a) <= 0 /\ Sign(b) >= 0 -> TRUE
      [] Sign(a) >= 0 /\ Sign(b) < 0 -> FALSE
      [] Sign(a) > 0 /\ Sign(b) = 0 -> FALSE
      [] Sign(a) > 0 /\ Sign(b) > 0 ->
            a.num * a.num * a.rad <= (b.num * b.num * b.rad * a.den * a.den) \div (b.den * b.den)
      [] OTHER ->
            b.num * b.num * b.rad <= (a.num * a.num * a.rad * b.den * b.den) \div (a.den * a.den)

\* x - y: scalars and arrays subtract entry by entry, a scalar or a
\* one-entry array broadcasting against an array; arrays of different
\* lengths do not subtract (ValueError), and a NoSub operand raises its own
\* error.
Sub(x, y) ==
    IF x.kind = "nosub" \/ y.kind = "nosub"
    THEN [status |-> "raise", exc |-> "DomainError", value |-> NoSub]
    ELSE LET n == IF Len(x.data) > Len(y.data) THEN Len(x.data) ELSE Len(y.data)
             at(v, i) == IF Len(v.data) = 1 THEN v.data[1] ELSE v.data[i]
         IN  IF Len(x.data) # Len(y.data) /\ Len(x.data) # 1 /\ Len(y.data) # 1
             THEN [status |-> "raise", exc |-> "ValueError", value |-> NoSub]
             ELSE [status |-> "return", exc |-> "",
                   value |-> [kind |-> IF x.kind = "scalar" /\ y.kind = "scalar"
                                       THEN "scalar" ELSE "array",
                              data |-> [i \in 1..n |-> <<at(x, i)[1] - at(y, i)[1],
                                                         at(x, i)[2] - at(y, i)[2]>>]]]

\* PercentTolerance with a fault: the percentage is taken of the norm of y.
PercentToleranceOfCandidate(x, y, tolerance) ==
    IF tolerance.t = "str"
    THEN LET f == ParseFloat(DropLast(Strip(tolerance.v))) IN
         IF ~f.ok THEN [status |-> "raise", exc |-> "ValueError", value |-> Norm(y)]
         ELSE [status |-> "return", exc |-> "",
               value |-> Times(Times(Norm(y), f.value), OneHundredth)]
    ELSE [status |-> "return", exc |-> "", value |-> [num |-> tolerance.v, den |-> 1, rad |-> 1]]

\* Lines 178-181: the tolerance as a number.
PercentTolerance(x, y, tolerance) ==
    IF tolerance.t = "str"
    THEN LET f == ParseFloat(DropLast(Strip(tolerance.v))) IN
         IF ~f.ok THEN [status |-> "raise", exc |-> "ValueError", value |-> Norm(x)]
         ELSE [status |-> "return", exc |-> "",
               value |-> Times(Times(Norm(x), f.value), OneHundredth)]
    ELSE [status |-> "return", exc |-> "", value |-> [num |-> tolerance.v, den |-> 1, rad |-> 1]]

within_tolerance(x, y, tolerance) ==
    LET tol == PercentTolerance(x, y, tolerance) IN
    IF tol.status = "raise" THEN [status |-> "raise", exc |-> tol.exc, value |-> FALSE]
    ELSE LET diff == Sub(x, y) IN
         IF diff.status = "raise" THEN [status |-> "raise", exc |-> diff.exc, value |-> FALSE]
         ELSE [status |-> "return", exc |-> "", value |-> Leq(Norm(diff.value), tol.value)]

----------------------------------------------------------------------------
(* SpecTol: one call of within_tolerance on every input *)

Number(hundredths) == [t |-> "number", v |-> hundredths]
String(chars) == [t |-> "str", v |-> chars]

\* 0, 1, 9, 9.01, 10, -1, 6+8j; [3, 4], [0, 0], [3, 5], [1], [1, 2, 3]
Numerics ==
    { Scalar(0, 0), Scalar(100, 0), Scalar(900, 0), Scalar(901, 0), Scalar(1000, 0),
      Scalar(0 - 100, 0), Scalar(600, 800),
      Array(<<300, 400>>), Array(<<0, 0>>), Array(<<300, 500>>), Array(<<100>>),
      Array(<<100, 200, 300>>) }

\* Percentage strings, each with the fraction of norm(x) it stands for.
PercentCases ==
    { [text |-> <<"1", "0", "%">>, num |-> 1, den |-> 10],
      [text |-> <<" ", "1", "0", "%", " ">>, num |-> 1, den |-> 10],
      [text |-> <<"1", "0", " ", "%">>, num |-> 1, den |-> 10],
      [text |-> <<"1", "%">>, num |-> 1, den |-> 100],
      [text |-> <<"2", ".", "5", "%">>, num |-> 1, den |-> 40],
      [text |-> <<"1", "0", "0", "%">>, num |-> 1, den |-> 1],
      [text |-> <<"0", "%">>, num |-> 0, den |-> 1],
      [text |-> <<"-", "1", "0", "%">>, num |-> 0 - 1, den |-> 10] }

\* 0, 0.5, 0.99, 1, 5, -1
Tolerances ==
    {Number(t) : t \in {0, 50, 99, 100, 500, 0 - 100}} \cup {String(c.text) : c \in PercentCases}

PendingBool == [status |-> "pending", exc |-> "", value |-> FALSE]

InitTol ==
    /\ heap = InitHeap
    /\ \E x \in Numerics, y \in Numerics \cup {NoSub}, t \in Tolerances :
          call = [op |-> "within_tolerance", x |-> x, y |-> y, tolerance |-> t]
    /\ ret = PendingBool
    /\ returned = <<>>
    /\ ncalls = 0
    /\ nmut = 0
    /\ gen = NoGen

CallWithinTolerance ==
    /\ call.op = "within_tolerance"
    /\ ret.status = "pending"
    /\ ret' = within_tolerance(call.x, call.y, call.tolerance)
    /\ UNCHANGED <<heap, call, returned, ncalls, nmut, gen>>

NextTol == CallWithinTolerance

SpecTol == InitTol /\ [][NextTol]_vars

TolDone == call.op = "within_tolerance" /\ ret.status # "pending"

\* C1: when the subtraction reference - candidate is unsupported, the call
\* returns False whatever the reference and the tolerance, and raises nothing.
C1_UnsupportedIsFalse ==
    (TolDone /\ call.y = NoSub) => (ret.status = "return" /\ ret.value = FALSE)

\* The doctests of lines 155-165 (the swap of x and y under '10%' changes the
\* result), and the boundary case norm(x - y) = T.
C2_Doctests ==
    /\ within_tolerance(Scalar(1000, 0), Scalar(901, 0), Number(100)).value = TRUE
    /\ within_tolerance(Scalar(1000, 0), Scalar(901, 0), Number(50)).value = FALSE
    /\ within_tolerance(Scalar(1000, 0), Scalar(901, 0), String(<<"1", "0", "%">>)).value = TRUE
    /\ within_tolerance(Scalar(901, 0), Scalar(1000, 0), String(<<"1", "0", "%">>)).value = FALSE
    /\ within_tolerance(Scalar(1000, 0), Scalar(900, 0), String(<<"1", "0", "%">>)).value = TRUE
    /\ within_tolerance(Scalar(1000, 0), Scalar(900, 0), Number(100)).value = TRUE

Subtractable(x, y) == Sub(x, y).status = "return"
DiffSq(x, y) == SumSq(Sub(x, y).value.data)
WithinNumber(x, y, t) == t >= 0 /\ DiffSq(x, y) <= t * t
WithinFraction(x, y, num, den) ==
    IF num >= 0 THEN DiffSq(x, y) <= (num * num * SumSq(x.data)) \div (den * den)
    ELSE SumSq(x.data) = 0 /\ DiffSq(x, y) = 0

\* C2: for subtractable x and y the call returns, and returns True exactly
\* when norm(x - y) <= T, equality included, where T is the tolerance itself
\* when it is a number and the stated fraction of norm(x) (never of norm(y))
\* when it is a percentage string.  Norms are compared through their squares.
C2_WithinIffNormLeq ==
    /\ C2_Doctests
    /\ (TolDone /\ Subtractable(call.x, call.y)) =>
          /\ ret.status = "return"
          /\ call.tolerance.t = "number"
                => (ret.value <=> WithinNumber(call.x, call.y, call.tolerance.v))
          /\ \A c \in PercentCases :
                call.tolerance = String(c.text)
                   => (ret.value <=> WithinFraction(call.x, call.y, c.num, c.den))

\* within_tolerance(10, 9.01, '10%') is True: 0.99 <= 1.0.
C2_Witness ==
    /\ TolDone
    /\ call.x = Scalar(1000, 0)
    /\ call.y = Scalar(901, 0)
    /\ call.tolerance = String(<<"1", "0", "%">>)
    /\ ret.value = TRUE

----------------------------------------------------------------------------
(* Calling the entries of DEFAULT_FUNCTIONS                                *)
(*                                                                         *)
(* An argument is a plain number, a zero-dimensional array, a vector or a  *)
(* matrix; its entries are pairs <<re, im>> counted in tenths.  What numpy *)
(* computes is kept symbolic, [f |-> <function>, x |-> <entries>]; only    *)
(* math.factorial is computed.                                             *)

Arg(shape, t, entries) == [shape |-> shape, t |-> t, data |-> entries]
IsScalarArg(arg) == arg.shape \in {"scalar", "0d"}

RECURSIVE Factorial(_)
Factorial(n) == IF n = 0 THEN 1 ELSE n * Factorial(n - 1)

LibReturns(shape, f, x) == [status |-> "return", exc |-> "", shape |-> shape, value |-> [f |-> f, x |-> x]]
LibRaises(exc) == [status |-> "raise", exc |-> exc, shape |-> "", value |-> [f |-> "", x |-> <<>>]]

\* A numpy ufunc, or an expression built from ufuncs (1 / np.cos(arg)):
\* applied entry by entry, to an array of any shape as to a number.
Elementwise(impl, arg) ==
    LibReturns(IF IsScalarArg(arg) THEN "scalar" ELSE arg.shape, impl.id, arg.data)

\* arccot: `if np.real(val) < 0` has no truth value for an array of several entries.
Arccot(impl, arg) ==
    IF IsScalarArg(arg) THEN LibReturns("scalar", impl.id, arg.data) ELSE LibRaises("ValueError")

\* math.factorial: an integer or an integral float that is not negative;
\* a complex number or an array of several entries does not convert.
MathFactorial(impl, arg) ==
    IF ~IsScalarArg(arg) \/ arg.t = "complex" THEN LibRaises("TypeError")
    ELSE LET tenths == arg.data[1][1] IN
         IF tenths % 10 # 0 \/ tenths < 0 THEN LibRaises("ValueError")
         ELSE LibReturns("scalar", "exact", << <<10 * Factorial(tenths \div 10), 0>> >>)

\* lambda x: float(np.real(x)): float() of an array of several entries is a TypeError.
ToFloat(impl, arg) ==
    IF IsScalarArg(arg) THEN LibReturns("scalar", impl.id, arg.data) ELSE LibRaises("TypeError")

\* DEFAULT_FUNCTIONS[name](arg): the entry is the function itself.
Apply(impl, arg) ==
    CASE impl.kind \in {"ufunc", "reciprocal"} -> Elementwise(impl, arg)
      [] impl.kind = "branching" -> Arccot(impl, arg)
      [] impl.kind = "builtin" -> MathFactorial(impl, arg)
      [] OTHER -> ToFloat(impl, arg)

\* -2, 0, 4, 0.5, 4.0, 2.2+4.1j; array(3); [1, 2]; [[1, 2], [-3, 1]]
LibArgs ==
    { Arg("scalar", "int", << <<0 - 20, 0>> >>), Arg("scalar", "int", << <<0, 0>> >>),
      Arg("scalar", "int", << <<40, 0>> >>), Arg("scalar", "float", << <<5, 0>> >>),
      Arg("scalar", "float", << <<40, 0>> >>), Arg("scalar", "complex", << <<22, 41>> >>),
      Arg("0d", "int", << <<30, 0>> >>),
      Arg("vector", "int", << <<10, 0>>, <<20, 0>> >>),
      Arg("matrix", "int", << <<10, 0>>, <<20, 0>>, <<0 - 30, 0>>, <<10, 0>> >>) }

PendingLib == [status |-> "pending", exc |-> "", shape |-> "", value |-> [f |-> "", x |-> <<>>]]

InitLib ==
    /\ heap = InitHeap
    /\ \E name \in DOMAIN DEFAULT_FUNCTIONS, arg \in LibArgs :
          call = [op |-> "library", name |-> name, arg |-> arg]
    /\ ret = PendingLib
    /\ returned = <<>>
    /\ ncalls = 0
    /\ nmut = 0
    /\ gen = NoGen

CallLibrary ==
    /\ call.op = "library"
    /\ ret.status = "pending"
    /\ ret' = Apply(heap[RefFunctions][call.name], call.arg)
    /\ UNCHANGED <<heap, call, returned, ncalls, nmut, gen>>

NextLib == CallLibrary

SpecLib == InitLib /\ [][NextLib]_vars

LibDone == call.op = "library" /\ ret.status # "pending"
ArrayAware == {Str("re"), Str("im"), Str("conj")}

\* C8: every entry other than re, im and conj raises a Domain Error on a
\* vector or a matrix and never returns an entry-by-entry result; on a plain
\* number or a zero-dimensional array it gives what the entry's function gives.
C8_ScalarOnly ==
    (LibDone /\ call.name \notin ArrayAware) =>
        /\ ~IsScalarArg(call.arg) => (ret.status = "raise" /\ ret.exc = "DomainError")
        /\ IsScalarArg(call.arg)
              => (ret.shape # "vector" /\ ret.shape # "matrix"
                  /\ ret = Apply(DEFAULT_FUNCTIONS[call.name], call.arg))

IsInteger(arg) == arg.t # "complex" /\ arg.data[1][1] % 10 = 0
\* C9: fact / factorial return a value for every scalar that is not a
\* negative integer, the exact n! for a non-negative integer n, and raise
\* exactly for the negative integers.
C9_FactorialDomain ==
    (LibDone /\ call.name \in {Str("fact"), Str("factorial")} /\ IsScalarArg(call.arg)) =>
        IF IsInteger(call.arg) /\ call.arg.data[1][1] < 0
        THEN ret.status = "raise"
        ELSE /\ ret.status = "return"
             /\ IsInteger(call.arg)
                   => ret.value = [f |-> "exact",
                                   x |-> << <<10 * Factorial(call.arg.data[1][1] \div 10), 0>> >>]

----------------------------------------------------------------------------
(* gen_symbols_samples                                                     *)
(*                                                                         *)
(* The nested comprehension of lines 341-344 is run one gen_sample() call  *)
(* at a time.  A sampling set is a stateful object: it counts the values   *)
(* it has produced, and its n-th value is [set |-> <the set>, n |-> n].    *)
(* sample_from maps names to sampling sets; two names may be given the     *)
(* same set.                                                               *)

MaxSymbols == 2
MaxSamples == 2

SymbolNames == {Str("a"), Str("b")}
SamplingSets == {"S1", "S2"}
SymbolLists == SeqsUpTo(SymbolNames, MaxSymbols)
SampleFroms == UNION {[d -> SamplingSets] : d \in SUBSET SymbolNames}

PendingGen == [status |-> "pending", exc |-> "", value |-> <<>>]

InitGen ==
    /\ heap = InitHeap
    /\ \E symbols \in SymbolLists, samples \in 0..MaxSamples, sample_from \in SampleFroms :
          /\ call = [op |-> "gen_symbols_samples", symbols |-> symbols, samples |-> samples,
                     sample_from |-> sample_from]
          /\ gen = [pc |-> "run", produced |-> [set \in SamplingSets |-> 0], j |-> 0, k |-> 1,
                    cur |-> EmptyDict, out |-> <<>>, log |-> <<>>]
    /\ ret = PendingGen
    /\ returned = <<>>
    /\ ncalls = 0
    /\ nmut = 0

\* sample_from[symbol].gen_sample() for the next symbol of the map under way.
GenSample ==
    /\ gen.pc = "run"
    /\ gen.j < call.samples
    /\ gen.k <= Len(call.symbols)
    /\ LET symbol == call.symbols[gen.k] IN
          /\ symbol \in DOMAIN call.sample_from
          /\ LET set == call.sample_from[symbol]
                 n == gen.produced[set] + 1
             IN gen' = [gen EXCEPT !.produced[set] = n,
                                   !.cur = DictSet(@, symbol, [set |-> set, n |-> n]),
                                   !.log = Append(@, [symbol |-> symbol, j |-> gen.j + 1]),
                                   !.k = @ + 1]
    /\ UNCHANGED <<heap, call, ret, returned, ncalls, nmut>>

\* sample_from[symbol] for a symbol sample_from does not hold: KeyError.
GenKeyError ==
    /\ gen.pc = "run"
    /\ gen.j < call.samples
    /\ gen.k <= Len(call.symbols)
    /\ call.symbols[gen.k] \notin DOMAIN call.sample_from
    /\ gen' = [gen EXCEPT !.pc = "done", !.cur = EmptyDict, !.out = <<>>]
    /\ ret' = [status |-> "raise", exc |-> "KeyError", value |-> <<>>]
    /\ UNCHANGED <<heap, call, returned, ncalls, nmut>>

\* GenEndMap with a fault: the first finished map is repeated for every sample.
GenEndMapRepeats ==
    /\ gen.pc = "run"
    /\ gen.j < call.samples
    /\ gen.k > Len(call.symbols)
    /\ gen' = [gen EXCEPT !.out = [i \in 1..call.samples |-> gen.cur], !.cur = EmptyDict,
                          !.j = call.samples, !.k = 1]
    /\ UNCHANGED <<heap, call, ret, returned, ncalls, nmut>>

\* The inner comprehension is exhausted: the map joins the list.
GenEndMap ==
    /\ gen.pc = "run"
    /\ gen.j < call.samples
    /\ gen.k > Len(call.symbols)
    /\ gen' = [gen EXCEPT !.out = Append(@, gen.cur), !.cur = EmptyDict, !.j = @ + 1, !.k = 1]
    /\ UNCHANGED <<heap, call, ret, returned, ncalls, nmut>>

\* range(samples) is exhausted: the list is returned.
GenReturn ==
    /\ gen.pc = "run"
    /\ gen.j >= call.samples
    /\ gen' = [gen EXCEPT !.pc = "done"]
    /\ ret' = [status |-> "return", exc |-> "", value |-> gen.out]
    /\ UNCHANGED <<heap, call, returned, ncalls, nmut>>

NextGen ==
    \/ GenSample
    \/ GenKeyError
    \/ GenEndMap
    \/ GenReturn

SpecGen == InitGen /\ [][NextGen]_vars

\* The listings of a sampling set: the positions of `symbols` whose symbol
\* is given that set.  A symbol is on its own when it is listed once and no
\* other listed symbol is given its set.
Missing == {symbol \in Entries(call.symbols) : symbol \notin DOMAIN call.sample_from}
ListingsOf(set, upto) ==
    {i \in 1..upto : call.symbols[i] \in DOMAIN call.sample_from
                     /\ call.sample_from[call.symbols[i]] = set}
LastListing(symbol) ==
    CHOOSE i \in 1..Len(call.symbols) :
        call.symbols[i] = symbol /\ \A q \in (i + 1)..Len(call.symbols) : call.symbols[q] # symbol
OnItsOwn(symbol) ==
    Cardinality(ListingsOf(call.sample_from[symbol], Len(call.symbols))) = 1

====
